---- MODULE Spec2Model ----
(***************************************************************************)
(* A model of proto2openapi's descriptor-to-OpenAPI transformation         *)
(* (src/src/openapi_gen.rs).  Text is modelled as sequences of one-        *)
(* character strings, so that the five regular expressions of the route    *)
(* annotation grammar are matched character by character.                  *)
(***************************************************************************)
EXTENDS Integers, Sequences, FiniteSets, TLC

VARIABLES
    comment,         \* try_from's argument: one leading comment line
    possible_paths,  \* generate: the descriptors pushed for the method
    ppc,             \* position of the comment loop: "parse" | "done"
    file,            \* the FileDescriptorProto generate walks
    schema,          \* generate: the mapping generate_schema_recursive returned last
    schema_map,      \* generate: the schema table (its entries; see GenerateMessage)
    midx,            \* generate: position in file.message_type
    eidx,            \* generate: position in file.enum_type
    spc,             \* position of the schema pass: "run" | "done"
    source_info,     \* gen.source_info: the locations kept and sorted
    gen_path,        \* gen.path: the location path of the element being generated
    sidx,            \* generate: position in file.service
    svc,             \* generate: the Service generate_service returned last
    paths,           \* generate: the HashMap from path to its route descriptors
    path_info,       \* generate_path's argument in the last call
    path_item,       \* generate_path's result in the last call
    openapi_paths,   \* openapi.paths: the path table, an IndexMap
    openapi,         \* the document generate returned: None until it returns
    gpc              \* position of the service pass:
                     \* "start" | "services" | "paths" | "done" | "panicked"
                     \* | "written"

parseVars == <<comment, possible_paths, ppc>>
schemaVars == <<schema, schema_map, midx, eidx, spc>>
genVars == <<source_info, gen_path, sidx, svc, paths, path_info, path_item,
             openapi_paths, openapi, gpc>>
vars == <<file, parseVars, schemaVars, genVars>>

\* the variables of the passes a specification does not run
ParseIdle == comment = <<>> /\ possible_paths = <<>> /\ ppc = "idle"
SchemaIdle ==
    schema = <<>> /\ schema_map = <<>> /\ midx = 0 /\ eidx = 0 /\ spc = "idle"
GenIdle ==
    /\ source_info = <<>> /\ gen_path = <<>> /\ sidx = 0 /\ svc = <<>>
    /\ paths = <<>> /\ path_info = <<>> /\ path_item = <<>>
    /\ openapi_paths = <<>> /\ openapi = <<>> /\ gpc = "idle"

-----------------------------------------------------------------------------
(* Option / Result values: the empty tuple is None / Err, <<v>> is Some(v) / Ok(v) *)
None == <<>>
Some(v) == <<v>>
IsSome(o) == o /= <<>>
Unwrap(o) == o[1]

SetMin(S) == CHOOSE x \in S : \A y \in S : x <= y
SetMax(S) == CHOOSE x \in S : \A y \in S : x >= y
Last(s) == s[Len(s)]

-----------------------------------------------------------------------------
(* Character classes of the regular expressions *)
Upper == {"A","B","C","D","E","F","G","H","I","J","K","L","M",
          "N","O","P","Q","R","S","T","U","V","W","X","Y","Z"}
Lower == {"a","b","c","d","e","f","g","h","i","j","k","l","m",
          "n","o","p","q","r","s","t","u","v","w","x","y","z"}
Digit == {"0","1","2","3","4","5","6","7","8","9"}
WordChar == Upper \cup Lower \cup Digit \cup {"_"}
SpaceChar == {" ", "\t"}
TagChar == Upper \cup Lower \cup Digit \cup {",", " "}

GET == <<"G","E","T">>
PUT == <<"P","U","T">>
POST == <<"P","O","S","T">>
DELETE == <<"D","E","L","E","T","E">>
Verbs == {GET, PUT, POST, DELETE}

RECURSIVE RunEnd(_, _, _)
\* index of the last character of the longest run of cls characters that
\* starts at i; i - 1 when s[i] is not in cls (a greedy cls* from i)
RunEnd(s, i, cls) ==
    IF i <= Len(s) /\ s[i] \in cls THEN RunEnd(s, i + 1, cls) ELSE i - 1

RECURSIVE RunStart(_, _, _)
\* index of the first character of the longest run of cls characters that
\* ends at i; i + 1 when s[i] is not in cls
RunStart(s, i, cls) ==
    IF i >= 1 /\ s[i] \in cls THEN RunStart(s, i - 1, cls) ELSE i + 1

HasAt(s, i, w) ==
    i >= 1 /\ i + Len(w) - 1 <= Len(s) /\ SubSeq(s, i, i + Len(w) - 1) = w

\* str::trim
Trim(s) == SubSeq(s, RunEnd(s, 1, SpaceChar) + 1, RunStart(s, Len(s), SpaceChar) - 1)

RECURSIVE Split(_, _)
\* str::split(sep): the pieces between the separators, empty pieces kept
Split(s, sep) ==
    LET hits == {i \in 1..Len(s) : s[i] = sep}
    IN  IF hits = {} THEN <<s>>
        ELSE LET i == SetMin(hits)
             IN  <<SubSeq(s, 1, i - 1)>> \o Split(SubSeq(s, i + 1, Len(s)), sep)

-----------------------------------------------------------------------------
(* The regular expressions *)

\* METHOD_RE without its ^ anchor: the leftmost verb anywhere on the line
METHOD_RE_Unanchored(s) ==
    LET hits == {i \in 1..Len(s) : \E v \in Verbs : HasAt(s, i, v)}
    IN  IF hits = {} THEN None
        ELSE LET i == SetMin(hits)
             IN  Some(SubSeq(s, i, i + Len(CHOOSE v \in Verbs : HasAt(s, i, v)) - 1))

\* METHOD_RE  ^\s*(GET|PUT|POST|DELETE) : capture 0, the whole match
METHOD_RE(s) ==
    LET i == RunEnd(s, 1, SpaceChar) + 1
        vs == {v \in Verbs : HasAt(s, i, v)}
    IN  IF vs = {} THEN None
        ELSE Some(SubSeq(s, 1, i + Len(CHOOSE v \in vs : TRUE) - 1))

\* \{\w+:\w+\} at position i: the index of its closing brace, 0 when none
PlaceholderEnd(s, i) ==
    IF i <= Len(s) /\ s[i] = "{"
    THEN LET n == RunEnd(s, i + 1, WordChar)
         IN  IF n >= i + 1 /\ n + 1 <= Len(s) /\ s[n + 1] = ":"
             THEN LET t == RunEnd(s, n + 2, WordChar)
                  IN  IF t >= n + 2 /\ t + 1 <= Len(s) /\ s[t + 1] = "}"
                      THEN t + 1 ELSE 0
             ELSE 0
    ELSE 0

\* /(\w+|\{\w+:\w+\}) at position i: the index of its last character, 0 when none
SegmentEnd(s, i) ==
    IF i <= Len(s) /\ s[i] = "/"
    THEN LET w == RunEnd(s, i + 1, WordChar)
         IN  IF w >= i + 1 THEN w ELSE PlaceholderEnd(s, i + 1)
    ELSE 0

RECURSIVE PathEnd(_, _)
\* the greedy repetition of segments from i
PathEnd(s, i) ==
    LET e == SegmentEnd(s, i) IN IF e = 0 THEN i - 1 ELSE PathEnd(s, e + 1)

\* PATH_RE  (?:/(?:(?:\w+)|(?:\{\w+:\w+\})))+ : the leftmost match
PATH_RE(s) ==
    LET starts == {i \in 1..Len(s) : SegmentEnd(s, i) > 0}
    IN  IF starts = {} THEN None
        ELSE LET i == SetMin(starts) IN Some(SubSeq(s, i, PathEnd(s, i)))

RECURSIVE ParamCaptures(_, _)
\* PARAM_RE.captures_iter: the non-overlapping matches from i, left to right
ParamCaptures(s, i) ==
    IF i > Len(s) THEN <<>>
    ELSE LET e == PlaceholderEnd(s, i)
         IN  IF e = 0 THEN ParamCaptures(s, i + 1)
             ELSE LET n == RunEnd(s, i + 1, WordChar)
                  IN  <<[param |-> SubSeq(s, i + 1, n),
                         param_type |-> SubSeq(s, n + 2, e - 1)]>>
                      \o ParamCaptures(s, e + 1)

\* BODY_RE  (\+|-) BODY : capture 1 of the leftmost match
BODY_RE(s) ==
    LET hits == {i \in 1..Len(s) :
                    s[i] \in {"+", "-"} /\ HasAt(s, i + 1, <<" ","B","O","D","Y">>)}
    IN  IF hits = {} THEN None ELSE Some(<<s[SetMin(hits)]>>)

\* TAG_RE taking the rightmost match
TAG_RE_LastMatch(s) ==
    LET close(i) == RunEnd(s, i + 1, TagChar)
        hits == {i \in 1..Len(s) :
                    /\ s[i] = "["
                    /\ close(i) >= i + 1
                    /\ close(i) + 1 <= Len(s)
                    /\ s[close(i) + 1] = "]"}
    IN  IF hits = {} THEN None
        ELSE LET i == SetMax(hits) IN Some(SubSeq(s, i + 1, close(i)))

\* TAG_RE  \[([a-zA-Z0-9, ]+)\] : capture 1 of the leftmost match
TAG_RE(s) ==
    LET close(i) == RunEnd(s, i + 1, TagChar)
        hits == {i \in 1..Len(s) :
                    /\ s[i] = "["
                    /\ close(i) >= i + 1
                    /\ close(i) + 1 <= Len(s)
                    /\ s[close(i) + 1] = "]"}
    IN  IF hits = {} THEN None
        ELSE LET i == SetMin(hits) IN Some(SubSeq(s, i + 1, close(i)))

RECURSIVE ReplaceParams(_, _)
\* PARAM_RE.replace_all(path, "{$1}") from position i
ReplaceParams(s, i) ==
    IF i > Len(s) THEN <<>>
    ELSE LET e == PlaceholderEnd(s, i)
         IN  IF e = 0 THEN <<s[i]>> \o ReplaceParams(s, i + 1)
             ELSE <<"{">> \o SubSeq(s, i + 1, RunEnd(s, i + 1, WordChar)) \o <<"}">>
                  \o ReplaceParams(s, e + 1)

path_to_openapi_path(path) == ReplaceParams(path, 1)

-----------------------------------------------------------------------------
(* OpenAPIPathInfo::try_from *)

\* collect() into a HashMap: a later pair replaces an earlier one with its key
CollectParameters(caps) ==
    [k \in {caps[j].param : j \in DOMAIN caps} |->
        caps[SetMax({j \in DOMAIN caps : caps[j].param = k})].param_type]

\* include_body left at BODY_RE.is_match(value) when the marker is absent
IncludeBody_NoDefault(value) ==
    LET m == BODY_RE(value)
    IN  IF IsSome(m) THEN (IF Unwrap(m) = <<"+">> THEN TRUE ELSE FALSE)
        ELSE FALSE

IncludeBody(value) ==
    LET m == BODY_RE(value)
    IN  IF IsSome(m) THEN (IF Unwrap(m) = <<"+">> THEN TRUE ELSE FALSE)
        ELSE TRUE

Tags(value) ==
    LET m == TAG_RE(value)
    IN  IF IsSome(m)
        THEN LET parts == Split(Unwrap(m), ",")
             IN  [j \in DOMAIN parts |-> Trim(parts[j])]
        ELSE <<>>

TryFrom(value) ==
    LET method == METHOD_RE(value)
    IN  IF method = None THEN None
        ELSE LET path == PATH_RE(value)
             IN  IF path = None THEN None
                 ELSE Some([path |-> Unwrap(path),
                            method |-> Trim(Unwrap(method)),
                            parameters |-> CollectParameters(ParamCaptures(value, 1)),
                            include_body |-> IncludeBody(value),
                            tags |-> Tags(value)])

\* generate_path: the schema type of a path parameter's declared type
ParameterSchemaType(param_type) ==
    CASE param_type = <<"s","t","r","i","n","g">> -> "string"
      [] param_type = <<"i","n","t">> -> "integer"
      [] OTHER -> "string"

-----------------------------------------------------------------------------
(* Route annotation parsing of one comment line: the body of the comment    *)
(* loop of generate, for a method with one leading comment line.            *)

MaxWords == 4   \* words of a comment line

RouteWords ==
    { GET, PUT, POST, DELETE,
      <<"g","e","t">>,
      <<"/","a">>,
      <<"/","a","/","{","x",":","i","n","t","}">>,
      <<"/","{","y",":","u","u","i","d","}">>,
      <<"{","x",":","s","t","r","i","n","g","}">>,
      <<"+"," ","B","O","D","Y">>,
      <<"-"," ","B","O","D","Y">>,
      <<"[","a",","," ","b","]">>,
      <<"[","c","]">> }

RECURSIVE WordLines(_)
\* the lines of at most n words, the words separated by one space
WordLines(n) ==
    IF n = 0 THEN {<<>>}
    ELSE LET shorter == WordLines(n - 1)
         IN  shorter \cup {IF l = <<>> THEN w ELSE l \o <<" ">> \o w :
                              l \in shorter, w \in RouteWords}

\* the lines of at most n words, as they are or after a blank and a tab
CommentLines(n) == {lead \o l : lead \in {<<>>, <<" ", "\t">>}, l \in WordLines(n)}

ParseInit ==
    /\ comment \in CommentLines(MaxWords)
    /\ possible_paths = <<>>
    /\ ppc = "parse"
    /\ file = <<>>
    /\ SchemaIdle
    /\ GenIdle

\* for comment in &m.comments.leading { if let Ok(path_def) = try_from(comment) { push } }
ParseComment ==
    /\ ppc = "parse"
    /\ LET path_def == TryFrom(comment)
       IN  possible_paths' = IF IsSome(path_def)
                             THEN Append(possible_paths, Unwrap(path_def))
                             ELSE possible_paths
    /\ ppc' = "done"
    /\ UNCHANGED <<comment, file, schemaVars, genVars>>

ParseNext == ParseComment

SpecParse == ParseInit /\ [][ParseNext]_vars

-----------------------------------------------------------------------------
(* Schema flattening: generate_schema_recursive, generate_fields_schema,    *)
(* generate_enum_schema.  A HashMap is a function on its keys, an IndexMap   *)
(* a sequence of [key, value] entries in insertion order.                   *)

MaxDepth == 10

EmptyMap == <<>>
\* HashMap::insert / HashMap::extend: the new entry replaces one with its key
MapInsert(m, k, v) == (k :> v) @@ m
MapExtend(m, other) == other @@ m

IndexMapHas(m, k) == \E i \in DOMAIN m : m[i].key = k
IndexMapGet(m, k) == m[CHOOSE i \in DOMAIN m : m[i].key = k].value
IndexMapKeys(m) == [i \in DOMAIN m |-> m[i].key]
\* IndexMap::insert: an existing key keeps its position and takes the new value
IndexMapInsert(m, k, v) ==
    IF IndexMapHas(m, k)
    THEN [i \in DOMAIN m |-> IF m[i].key = k THEN [key |-> k, value |-> v] ELSE m[i]]
    ELSE Append(m, [key |-> k, value |-> v])

\* format!("#/components/schemas/{}", type_name.split('.').last().unwrap());
\* a type name is the sequence of its dot-separated segments
SchemaRef(type_name) == [ref |-> <<"#/components/schemas/", Last(type_name)>>]

TypeSchema(t) == [kind |-> "Type", type |-> t]
ArraySchema(items) == [kind |-> "Array", items |-> items]

\* the match without its arms for the unsigned types
InnerType_NoUnsigned(type) ==
    CASE type = "Bool" -> "boolean"
      [] type = "String" -> "string"
      [] type = "Double" -> "number"
      [] type = "Float" -> "number"
      [] type = "Int32" -> "integer"
      [] type = "Int64" -> "integer"
      [] OTHER -> "string"

\* match field.r#type() { ... } of generate_fields_schema
InnerType(type) ==
    CASE type = "Bool" -> "boolean"
      [] type = "String" -> "string"
      [] type = "Double" -> "number"
      [] type = "Float" -> "number"
      [] type = "Int32" -> "integer"
      [] type = "Int64" -> "integer"
      [] type = "Uint32" -> "integer"
      [] type = "Uint64" -> "integer"
      [] OTHER -> "string"

\* the schema of one plain field
FieldSchema(field) ==
    IF field.label = "Repeated"
    THEN IF IsSome(field.type_name)
         THEN ArraySchema(SchemaRef(Unwrap(field.type_name)))
         ELSE ArraySchema(TypeSchema(InnerType(field.type)))
    ELSE IF IsSome(field.type_name)
         THEN SchemaRef(Unwrap(field.type_name))
         ELSE TypeSchema(InnerType(field.type))

\* one alternative of a oneOf: an object with the member as its only property
OneofAlternative(o) ==
    [kind |-> "Object",
     properties |-> IndexMapInsert(<<>>, o.name, TypeSchema(InnerType(o.type)))]

RECURSIVE InsertFields(_, _, _)
\* for field in fields { object_type.properties.insert(...) }, from index i
InsertFields(properties, fields, i) ==
    IF i > Len(fields) THEN properties
    ELSE InsertFields(IndexMapInsert(properties, fields[i].name, FieldSchema(fields[i])),
                      fields, i + 1)

RECURSIVE InsertOneofs(_, _, _, _)
\* for (idx, oneof) in oneof_decl.iter().enumerate() { ... }, from position j
InsertOneofs(properties, oneof_fields, oneof_decl, j) ==
    IF j > Len(oneof_decl) THEN properties
    ELSE LET idx == j - 1
         IN  IF idx \notin DOMAIN oneof_fields
             THEN InsertOneofs(properties, oneof_fields, oneof_decl, j + 1)
             ELSE LET oneofs == oneof_fields[idx]
                      field_schema ==
                          [kind |-> "OneOf",
                           one_of |-> [k \in DOMAIN oneofs |-> OneofAlternative(oneofs[k])]]
                  IN  InsertOneofs(
                          IndexMapInsert(properties, oneof_decl[j].name, field_schema),
                          oneof_fields, oneof_decl, j + 1)

generate_fields_schema(fields, oneof_fields, oneof_decl) ==
    [kind |-> "Object",
     properties |-> InsertOneofs(InsertFields(<<>>, fields, 1),
                                 oneof_fields, oneof_decl, 1)]

\* the partition without its proto3_optional test
IsLeft_IgnoresProto3Optional(field) == ~IsSome(field.oneof_index)

\* partition_map: Left for a proto3-optional field or one outside any oneof
IsLeft(field) ==
    IF IsSome(field.proto3_optional) /\ Unwrap(field.proto3_optional)
    THEN TRUE
    ELSE ~IsSome(field.oneof_index)

\* the Left side: the plain fields, in declaration order
PlainFields(field) == SelectSeq(field, IsLeft)

\* the Right side: the MultiMap from oneof index to its fields, in declaration order
OneofFields(field) ==
    LET right == SelectSeq(field, LAMBDA f : ~IsLeft(f))
    IN  [idx \in {Unwrap(right[k].oneof_index) : k \in DOMAIN right} |->
            SelectSeq(right, LAMBDA f : Unwrap(f.oneof_index) = idx)]

RECURSIVE JoinDescription(_, _)
\* format!("{} = {}", name, number) of the values from i, joined by "\n\n"
JoinDescription(enum_values, i) ==
    IF i > Len(enum_values) THEN <<>>
    ELSE (IF i > 1 THEN <<"\n\n">> ELSE <<>>)
         \o <<enum_values[i].name, " = ", ToString(enum_values[i].number)>>
         \o JoinDescription(enum_values, i + 1)

\* the enum constraint without the numbers that repeat an earlier one
generate_enum_schema_UniqueNumbers(enum_values) ==
    LET first(n) == SetMin({i \in DOMAIN enum_values : enum_values[i].number = n})
        kept == SelectSeq([i \in DOMAIN enum_values |-> i],
                          LAMBDA i : first(enum_values[i].number) = i)
    IN  [kind |-> "Integer",
         description |-> JoinDescription(enum_values, 1),
         enumeration |-> [k \in DOMAIN kept |-> enum_values[kept[k]].number]]

generate_enum_schema(enum_values) ==
    [kind |-> "Integer",
     description |-> JoinDescription(enum_values, 1),
     enumeration |-> [i \in DOMAIN enum_values |-> enum_values[i].number]]

RECURSIVE InsertEnums(_, _, _)
\* for enum_descriptor in &tl_message.enum_type { schema_map.insert(...) }
InsertEnums(map, enum_type, i) ==
    IF i > Len(enum_type) THEN map
    ELSE InsertEnums(MapInsert(map, enum_type[i].name,
                               generate_enum_schema(enum_type[i].value)),
                     enum_type, i + 1)

\* the guard compared with > instead of >=
DepthReached_OffByOne(depth) == depth > MaxDepth

\* if depth >= 10 { return schema_map; }
DepthReached(depth) == depth >= MaxDepth

RECURSIVE generate_schema_recursive(_, _)
RECURSIVE ExtendNested(_, _, _, _)
\* for nested_message in tl_message.nested_type { schema_map.extend(recursive) }
ExtendNested(map, nested_type, depth, i) ==
    IF i > Len(nested_type) THEN map
    ELSE ExtendNested(MapExtend(map,
                                generate_schema_recursive(nested_type[i], depth)),
                      nested_type, depth, i + 1)

generate_schema_recursive(tl_message, depth0) ==
    LET depth == depth0 + 1
    IN  IF DepthReached(depth) THEN EmptyMap
        ELSE LET nested == ExtendNested(EmptyMap, tl_message.nested_type, depth, 1)
                 tl_schema == generate_fields_schema(PlainFields(tl_message.field),
                                                     OneofFields(tl_message.field),
                                                     tl_message.oneof_decl)
             IN  InsertEnums(MapInsert(nested, tl_message.name, tl_schema),
                             tl_message.enum_type, 1)

-----------------------------------------------------------------------------
(* The schema pass of generate over one file: the message loop, the enum    *)
(* loop, and the assignment of the schema table to the document.            *)

MaxFields == 3   \* fields of the message under test
MaxNest == 11    \* levels of the deepest chain of nested messages
MaxValues == 2   \* values of the enum under test

FieldNames == <<"name", "age", "email", "phone">>
FieldTypes == {"Bool", "String", "Double", "Float", "Int32", "Int64", "Uint32",
               "Uint64", "Bytes", "Sint32", "Message", "Enum"}
\* how a field is declared: alone, repeated, inside oneof a or b, or proto3 optional
FieldKinds == {"plain", "repeated", "a", "b", "optional3"}
\* every wire type alone; some of them repeated, in a oneof or proto3 optional
FieldDecls ==
    [type : FieldTypes, kind : {"plain"}]
    \cup [type : {"String", "Uint64", "Message", "Enum"}, kind : {"repeated"}]
    \cup [type : {"Int32", "Message"}, kind : {"a", "b", "optional3"}]
FieldDeclSeqs(n) == UNION {[1..k -> FieldDecls] : k \in 0..n}

\* the descriptor protoc emits for a message with the declared fields: the
\* declared oneofs first, then one synthetic oneof per proto3-optional field
BuildMessage(name, decls) ==
    LET real == SelectSeq(<<"a", "b">>, LAMBDA g : \E i \in DOMAIN decls : decls[i].kind = g)
        realIdx(g) == (CHOOSE j \in DOMAIN real : real[j] = g) - 1
        synth == SelectSeq([i \in DOMAIN decls |-> i], LAMBDA i : decls[i].kind = "optional3")
        synthIdx(i) == Len(real) + (CHOOSE j \in DOMAIN synth : synth[j] = i) - 1
    IN  [name |-> name,
         field |-> [i \in DOMAIN decls |->
            [name |-> FieldNames[i],
             label |-> IF decls[i].kind = "repeated" THEN "Repeated" ELSE "Optional",
             type |-> decls[i].type,
             type_name |-> CASE decls[i].type = "Message" -> Some(<<"", "pkg", "Address">>)
                             [] decls[i].type = "Enum" -> Some(<<"", "pkg", "Status">>)
                             [] OTHER -> None,
             oneof_index |-> CASE decls[i].kind \in {"a", "b"} -> Some(realIdx(decls[i].kind))
                               [] decls[i].kind = "optional3" -> Some(synthIdx(i))
                               [] OTHER -> None,
             proto3_optional |-> IF decls[i].kind = "optional3" THEN Some(TRUE) ELSE None]],
         nested_type |-> <<>>,
         enum_type |-> <<>>,
         oneof_decl |-> [j \in DOMAIN real |-> [name |-> "choice_" \o real[j]]]
                        \o [j \in DOMAIN synth |-> [name |-> "_" \o FieldNames[synth[j]]]]]

LevelName(k) == "Level" \o ToString(k)

RECURSIVE Chain(_, _)
\* a message at level k that nests one message per level down to level d
Chain(k, d) ==
    [name |-> LevelName(k),
     field |-> BuildMessage("", <<[type |-> "Int32", kind |-> "plain"]>>).field,
     nested_type |-> IF k < d THEN <<Chain(k + 1, d)>> ELSE <<>>,
     enum_type |-> <<>>,
     oneof_decl |-> <<>>]

EnumValues == [name : {"ACTIVE", "INACTIVE"}, number : {0, 1}]
\* value lists of an enum: at least one value, the names distinct
EnumValueSeqs ==
    {vs \in UNION {[1..k -> EnumValues] : k \in 1..MaxValues} :
        \A i, j \in DOMAIN vs : vs[i].name = vs[j].name => i = j}

SchemaFiles(n) ==
    {[message_type |-> <<BuildMessage("User", decls)>>, enum_type |-> <<>>] :
        decls \in FieldDeclSeqs(n)}
    \cup {[message_type |-> <<Chain(1, d)>>, enum_type |-> <<>>] : d \in 1..MaxNest}
    \cup {[message_type |-> ms, enum_type |-> <<[name |-> "Status", value |-> vs]>>] :
            ms \in {<<>>, <<Chain(1, 2), BuildMessage("User", <<>>)>>},
            vs \in EnumValueSeqs}

SchemaInit ==
    /\ file \in SchemaFiles(MaxFields)
    /\ schema = EmptyMap
    /\ schema_map = EmptyMap
    /\ midx = 1
    /\ eidx = 1
    /\ spc = "run"
    /\ ParseIdle
    /\ GenIdle

\* one iteration of `for (idx, message) in file.message_type`.  extend() walks
\* the returned HashMap in an unspecified order, so the position of an entry in
\* the table is not modelled: schema_map holds the table's entries by key.
GenerateMessage ==
    /\ spc = "run"
    /\ midx <= Len(file.message_type)
    /\ schema' = generate_schema_recursive(file.message_type[midx], 0)
    /\ schema_map' = MapExtend(schema_map, schema')
    /\ midx' = midx + 1
    /\ UNCHANGED <<file, eidx, spc, parseVars, genVars>>

\* one iteration of `for (idx, enum_type) in file.enum_type`
GenerateEnum ==
    /\ spc = "run"
    /\ midx > Len(file.message_type)
    /\ eidx <= Len(file.enum_type)
    /\ schema_map' = MapInsert(schema_map, file.enum_type[eidx].name,
                               generate_enum_schema(file.enum_type[eidx].value))
    /\ eidx' = eidx + 1
    /\ UNCHANGED <<file, schema, midx, spc, parseVars, genVars>>

\* openapi.components = Some(Components { schemas: schema_map, .. })
FinishSchemas ==
    /\ spc = "run"
    /\ midx > Len(file.message_type)
    /\ eidx > Len(file.enum_type)
    /\ spc' = "done"
    /\ UNCHANGED <<file, schema, schema_map, midx, eidx, parseVars, genVars>>

SchemaNext == GenerateMessage \/ GenerateEnum \/ FinishSchemas

SpecSchema == SchemaInit /\ [][SchemaNext]_vars

-----------------------------------------------------------------------------
(* The schema pass over a message with nested messages and nested enums     *)

MaxInner == 2   \* nested messages, and nested enums, of the message

\* an enum of one value
InnerEnum(name) == [name |-> name, value |-> <<[name |-> "ACTIVE", number |-> 0]>>]

\* a nested message with one int32 field and at most one nested enum
InnerMessages ==
    {[BuildMessage(name, <<[type |-> "Int32", kind |-> "plain"]>>)
         EXCEPT !.enum_type = enums] :
        name \in {"User", "Address"},
        enums \in {<<>>, <<InnerEnum("User")>>, <<InnerEnum("Address")>>}}

\* the message User, without field or with one string field, around nested
\* messages and nested enums that may bear its name
NestingMessages(n) ==
    {[BuildMessage("User", decls) EXCEPT !.nested_type = inner, !.enum_type = enums] :
        decls \in {<<>>, <<[type |-> "String", kind |-> "plain"]>>},
        inner \in UNION {[1..k -> InnerMessages] : k \in 0..n},
        enums \in UNION {[1..k -> {InnerEnum("User"), InnerEnum("Status")}] :
                            k \in 0..n}}

NestedInit ==
    /\ file \in {[message_type |-> <<m>>, enum_type |-> top] :
                    m \in NestingMessages(MaxInner), top \in {<<>>, <<InnerEnum("Role")>>}}
    /\ schema = EmptyMap
    /\ schema_map = EmptyMap
    /\ midx = 1
    /\ eidx = 1
    /\ spc = "run"
    /\ ParseIdle
    /\ GenIdle

SpecNested == NestedInit /\ [][SchemaNext]_vars

-----------------------------------------------------------------------------
(* Comments of a declaration: Commentable::from_location and location()     *)

\* str::lines: the pieces between line feeds, a final empty piece dropped
StrLines(text) ==
    LET parts == Split(text, "\n")
    IN  IF Last(parts) = <<>> THEN SubSeq(parts, 1, Len(parts) - 1) ELSE parts

\* only the leading comments are read by generate
from_location(location) ==
    [leading |-> IF IsSome(location.leading_comments)
                 THEN StrLines(Unwrap(location.leading_comments))
                 ELSE <<>>]

RECURSIVE PathLess(_, _)
\* the order of Vec<i32>: lexicographic
PathLess(a, b) ==
    IF b = <<>> THEN FALSE
    ELSE IF a = <<>> THEN TRUE
    ELSE IF a[1] /= b[1] THEN a[1] < b[1]
    ELSE PathLess(Tail(a), Tail(b))

\* source_info.location.retain(|location| len > 0 && len % 2 == 0)
RetainLocations(location) ==
    SelectSeq(location, LAMBDA l : Len(l.path) > 0 /\ Len(l.path) % 2 = 0)

RECURSIVE SortLocations(_)
\* source_info.location.sort_by_key(|location| location.path.clone()): stable
SortLocations(location) ==
    IF location = <<>> THEN <<>>
    ELSE LET front == SortLocations(SubSeq(location, 1, Len(location) - 1))
             x == location[Len(location)]
             k == Cardinality({i \in DOMAIN front : ~PathLess(x.path, front[i].path)})
         IN  SubSeq(front, 1, k) \o <<x>> \o SubSeq(front, k + 1, Len(front))

RECURSIVE BinarySearch(_, _, _, _)
\* binary_search_by_key over the positions lo .. hi - 1: Some(index) or None
BinarySearch(location, key, lo, hi) ==
    IF lo >= hi THEN None
    ELSE LET mid == lo + ((hi - lo) \div 2)
         IN  IF location[mid].path = key THEN Some(mid)
             ELSE IF PathLess(location[mid].path, key)
                  THEN BinarySearch(location, key, mid + 1, hi)
                  ELSE BinarySearch(location, key, lo, mid)

\* a lookup that yields no comments where location() panics
LocationComments_EmptyWhenMissing(info, path) ==
    LET idx == BinarySearch(info.location, path, 1, Len(info.location) + 1)
    IN  IF idx = None THEN Some([leading |-> <<>>])
        ELSE Some(from_location(info.location[Unwrap(idx)]))

\* Comments::from_location(self.location()): None when location() panics
LocationComments(info, path) ==
    LET idx == BinarySearch(info.location, path, 1, Len(info.location) + 1)
    IN  IF idx = None THEN None ELSE Some(from_location(info.location[Unwrap(idx)]))

\* every method looked up at the location path of the first method
MethodLocationPath_FirstMethod(path, idx) == path \o <<2, 0>>

\* self.path.push(2); self.path.push(idx as i32)
MethodLocationPath(path, idx) == path \o <<2, idx>>

\* generate_service: Some(Service), or None when an unwrap panics
generate_service(info, path, service) ==
    LET comments == LocationComments(info, path)
        method(i) ==
            LET c == LocationComments(info, MethodLocationPath(path, i - 1))
                m == service.method[i]
            IN  IF c = None \/ m.name = None \/ m.input_type = None \/ m.output_type = None
                THEN None
                ELSE Some([name |-> Unwrap(m.name),
                           comments |-> Unwrap(c),
                           input_proto_type |-> Unwrap(m.input_type),
                           output_proto_type |-> Unwrap(m.output_type)])
    IN  IF comments = None \/ \E i \in DOMAIN service.method : method(i) = None
        THEN None
        ELSE Some([name |-> IF IsSome(service.name) THEN Unwrap(service.name) ELSE "",
                   comments |-> Unwrap(comments),
                   methods |-> [i \in DOMAIN service.method |-> Unwrap(method(i))]])

-----------------------------------------------------------------------------
(* Route collection and path items: generate and generate_path              *)

RECURSIVE PossiblePaths(_, _)
\* for comment in &m.comments.leading { if let Ok(path_def) = ... { push } }
PossiblePaths(leading, i) ==
    IF i > Len(leading) THEN <<>>
    ELSE LET path_def == TryFrom(leading[i])
         IN  (IF IsSome(path_def) THEN path_def ELSE <<>>) \o PossiblePaths(leading, i + 1)

\* the (input_type, output_type, possible_paths) of the methods of a service
MethodInfos(service) ==
    [i \in DOMAIN service.methods |->
        [input_type |-> service.methods[i].input_proto_type,
         output_type |-> service.methods[i].output_proto_type,
         possible_paths |-> PossiblePaths(service.methods[i].comments.leading, 1)]]

\* the route descriptors of a method, each with the types of the first method
RouteTriples_FirstMethodTypes(method_infos, i) ==
    [j \in DOMAIN method_infos[i].possible_paths |->
        [input_type |-> method_infos[1].input_type,
         output_type |-> method_infos[1].output_type,
         path_def |-> method_infos[i].possible_paths[j]]]

\* the route descriptors of method i, each with the method's types
RouteTriples(method_infos, i) ==
    [j \in DOMAIN method_infos[i].possible_paths |->
        [input_type |-> method_infos[i].input_type,
         output_type |-> method_infos[i].output_type,
         path_def |-> method_infos[i].possible_paths[j]]]

RECURSIVE AllTriples(_, _)
AllTriples(method_infos, i) ==
    IF i > Len(method_infos) THEN <<>>
    ELSE RouteTriples(method_infos, i) \o AllTriples(method_infos, i + 1)

\* the HashMap from path to the descriptors on it, each list in push order
CollectPaths(method_infos) ==
    LET all == AllTriples(method_infos, 1)
    IN  [p \in {all[j].path_def.path : j \in DOMAIN all} |->
            SelectSeq(all, LAMBDA t : t.path_def.path = p)]

\* the orders in which the iteration of a HashMap may visit the keys S
IterationOrders(S) ==
    {f \in [1..Cardinality(S) -> S] : \A i, j \in DOMAIN f : f[i] = f[j] => i = j}

PathParameter(param, param_type) ==
    [name |-> param,
     required |-> TRUE,
     schema |-> TypeSchema(ParameterSchemaType(param_type))]

\* the operation with a request body also for GET
BuildOperation_BodyForGet(input_type, output_type, path_def) ==
    [request_body |->
        IF path_def.include_body
        THEN Some([content |-> IndexMapInsert(<<>>, "application/json",
                                              [schema |-> SchemaRef(input_type)])])
        ELSE None,
     responses |->
        [default |-> None,
         responses |-> IndexMapInsert(<<>>, 200,
            [content |-> IndexMapInsert(<<>>, "application/json",
                                        [schema |-> SchemaRef(output_type)]),
             description |-> <<"A response containing ", Last(output_type)>>])],
     tags |-> path_def.tags]

\* the operation of one route descriptor
BuildOperation(input_type, output_type, path_def) ==
    [request_body |->
        IF path_def.method /= GET /\ path_def.include_body
        THEN Some([content |-> IndexMapInsert(<<>>, "application/json",
                                              [schema |-> SchemaRef(input_type)])])
        ELSE None,
     responses |->
        [default |-> None,
         responses |-> IndexMapInsert(<<>>, 200,
            [content |-> IndexMapInsert(<<>>, "application/json",
                                        [schema |-> SchemaRef(output_type)]),
             description |-> <<"A response containing ", Last(output_type)>>])],
     tags |-> path_def.tags]

\* a slot that keeps the operation it already has
SetOperation_KeepFirst(item, method, operation) ==
    CASE method = GET /\ item.get = None -> [item EXCEPT !.get = Some(operation)]
      [] method = POST /\ item.post = None -> [item EXCEPT !.post = Some(operation)]
      [] method = PUT /\ item.put = None -> [item EXCEPT !.put = Some(operation)]
      [] method = DELETE /\ item.delete = None -> [item EXCEPT !.delete = Some(operation)]
      [] OTHER -> item

\* match path_def.method.as_str() { "GET" => path_item.get = Some(operation), .. }
SetOperation(item, method, operation) ==
    CASE method = GET -> [item EXCEPT !.get = Some(operation)]
      [] method = POST -> [item EXCEPT !.post = Some(operation)]
      [] method = PUT -> [item EXCEPT !.put = Some(operation)]
      [] method = DELETE -> [item EXCEPT !.delete = Some(operation)]
      [] OTHER -> item

RECURSIVE AttachOperations(_, _, _)
\* for (input_type, output_type, path_def) in path_info { ... }, from index i
AttachOperations(item, group, i) ==
    IF i > Len(group) THEN item
    ELSE AttachOperations(
             SetOperation(item, group[i].path_def.method,
                          BuildOperation(group[i].input_type, group[i].output_type,
                                         group[i].path_def)),
             group, i + 1)

\* PathItem::default()
EmptyPathItem ==
    [get |-> None, put |-> None, post |-> None, delete |-> None, parameters |-> <<>>]

\* generate_path; order is the order in which first.parameters is iterated
generate_path(group, order) ==
    AttachOperations(
        [EmptyPathItem EXCEPT !.parameters =
            [k \in DOMAIN order |->
                PathParameter(order[k], group[1].path_def.parameters[order[k]])]],
        group, 1)

-----------------------------------------------------------------------------
(* The service pass of generate over one file                               *)

MaxServices == 2   \* services of a file
MaxMethods == 2    \* methods of a service
MaxLines == 2      \* leading comment lines of a method
MaxComments == 3   \* leading comment lines of all methods of a file

\* GET /u/{id:string}
LineGetUser ==
    <<"G","E","T"," ","/","u","/","{","i","d",":","s","t","r","i","n","g","}">>
\* PUT /u/{id:string}
LinePutUser ==
    <<"P","U","T"," ","/","u","/","{","i","d",":","s","t","r","i","n","g","}">>
\* PUT /u/{id:string} - BODY [a]
LinePutUserNoBody ==
    <<"P","U","T"," ","/","u","/","{","i","d",":","s","t","r","i","n","g","}"," ","-"," ","B","O","D","Y"," ","[","a","]">>
\* DELETE /u/{id:int}
LineDeleteUserInt ==
    <<"D","E","L","E","T","E"," ","/","u","/","{","i","d",":","i","n","t","}">>
\* POST /v + BODY
LinePostV ==
    <<"P","O","S","T"," ","/","v"," ","+"," ","B","O","D","Y">>
\* Gets a user
LineProse ==
    <<"G","e","t","s"," ","a"," ","u","s","e","r">>
RouteLines ==
    {LineGetUser, LinePutUser, LinePutUserNoBody, LineDeleteUserInt, LinePostV, LineProse}

RECURSIVE Concat(_)
Concat(ss) == IF ss = <<>> THEN <<>> ELSE Head(ss) \o Concat(Tail(ss))

RECURSIVE SumTo(_, _)
\* shape[1] + ... + shape[n]
SumTo(shape, n) == IF n = 0 THEN 0 ELSE shape[n] + SumTo(shape, n - 1)

\* the comment lines of k methods: at most MaxLines each, MaxComments at most
\* in all (budget); lens[j] lines for the j-th method, cut from one list
MethodComments(k, budget) ==
    UNION {{[j \in 1..k |-> SubSeq(flat, SumTo(lens, j - 1) + 1, SumTo(lens, j))] :
                flat \in [1..SumTo(lens, k) -> RouteLines]} :
           lens \in {l \in [1..k -> 0..MaxLines] : SumTo(l, k) <= budget}}

\* the number of methods of each service
FileShapes == UNION {[1..n -> 1..MaxMethods] : n \in 1..MaxServices}

\* what the descriptor set lacks, in the last method of the last service
\* or for the last service
Defects == {"no_name", "no_input_type", "no_output_type",
            "no_method_location", "no_service_location"}

InputTypeOf(s, m) == <<"", "pkg", "Request" \o ToString(s) \o ToString(m)>>
OutputTypeOf(s, m) == <<"", "pkg", "Reply" \o ToString(s) \o ToString(m)>>

\* protoc's leading_comments of `// line` comments: the text after each //
CommentText(lines) ==
    IF lines = <<>> THEN None
    ELSE Some(Concat([i \in DOMAIN lines |-> <<" ">> \o lines[i] \o <<"\n">>]))

\* the file protoc emits for services of the given shape; comments[k] are the
\* comment lines of the k-th method of the file.  The locations come in
\* protoc's order: the file, its syntax, a file option, then each service and
\* its name, and each method and its name and types.
BuildFile(shape, comments, defect) ==
    LET lastS == Len(shape)
        isLast(s, m) == s = lastS /\ m = shape[s]
        methodLocations(s, m) ==
            (IF defect = "no_method_location" /\ isLast(s, m) THEN <<>>
             ELSE <<[path |-> <<6, s - 1, 2, m - 1>>,
                     leading_comments |-> CommentText(comments[SumTo(shape, s - 1) + m])]>>)
            \o [f \in 1..3 |-> [path |-> <<6, s - 1, 2, m - 1, f>>, leading_comments |-> None]]
        serviceLocations(s) ==
            (IF defect = "no_service_location" /\ s = lastS THEN <<>>
             ELSE <<[path |-> <<6, s - 1>>, leading_comments |-> None]>>)
            \o <<[path |-> <<6, s - 1, 1>>, leading_comments |-> None]>>
            \o Concat([m \in 1..shape[s] |-> methodLocations(s, m)])
    IN  [message_type |-> <<>>,
         enum_type |-> <<>>,
         service |-> [s \in DOMAIN shape |->
            [name |-> Some("Service" \o ToString(s)),
             method |-> [m \in 1..shape[s] |->
                [name |-> IF defect = "no_name" /\ isLast(s, m)
                          THEN None ELSE Some("Method" \o ToString(m)),
                 input_type |-> IF defect = "no_input_type" /\ isLast(s, m)
                                THEN None ELSE Some(InputTypeOf(s, m)),
                 output_type |-> IF defect = "no_output_type" /\ isLast(s, m)
                                 THEN None ELSE Some(OutputTypeOf(s, m))]]]],
         source_code_info |-> [location |->
            <<[path |-> <<>>, leading_comments |-> None],
              [path |-> <<12>>, leading_comments |-> None],
              [path |-> <<8, 1>>, leading_comments |-> None]>>
            \o Concat([s \in DOMAIN shape |-> serviceLocations(s)])]]

\* the shapes with the comment lines of their methods, budget lines at most
FileInputs(budget) ==
    UNION {{<<shape, comments>> :
                comments \in MethodComments(SumTo(shape, Len(shape)), budget)} :
           shape \in FileShapes}

\* complete files with at most budget comment lines, and defective files
\* with at most one
ServiceFiles(budget) ==
    {BuildFile(x[1], x[2], "none") : x \in FileInputs(budget)}
    \cup {BuildFile(x[1], x[2], defect) : x \in FileInputs(1), defect \in Defects}

Init ==
    /\ file \in ServiceFiles(MaxComments)
    /\ source_info = <<>>
    /\ gen_path = <<>>
    /\ sidx = 0
    /\ svc = <<>>
    /\ paths = <<>>
    /\ path_info = <<>>
    /\ path_item = <<>>
    /\ openapi_paths = <<>>
    /\ openapi = None
    /\ gpc = "start"
    /\ ParseIdle
    /\ SchemaIdle

\* the start of `for file in files`: the locations are filtered and sorted;
\* the message and the enum loop push 4 and 5 and pop them (the file has no
\* message and no enum), and the service loop pushes 6
BeginFile ==
    /\ gpc = "start"
    /\ source_info' = [location |->
                          SortLocations(RetainLocations(file.source_code_info.location))]
    /\ gen_path' = <<6>>
    /\ sidx' = 1
    /\ gpc' = "services"
    /\ UNCHANGED <<file, svc, paths, path_info, path_item, openapi_paths, openapi,
                   parseVars, schemaVars>>

\* one iteration of `for (idx, service) in file.service` up to the grouping
GenerateService ==
    /\ gpc = "services"
    /\ sidx <= Len(file.service)
    /\ LET r == generate_service(source_info, Append(gen_path, sidx - 1), file.service[sidx])
       IN  /\ r /= None
           /\ svc' = Unwrap(r)
           /\ paths' = CollectPaths(MethodInfos(Unwrap(r)))
    /\ gen_path' = Append(gen_path, sidx - 1)
    /\ gpc' = "paths"
    /\ UNCHANGED <<file, source_info, sidx, path_info, path_item, openapi_paths,
                   openapi, parseVars, schemaVars>>

\* generate_service panics on an unwrap: generate unwinds and returns nothing
GenerateServicePanics ==
    /\ gpc = "services"
    /\ sidx <= Len(file.service)
    /\ generate_service(source_info, Append(gen_path, sidx - 1), file.service[sidx]) = None
    /\ gpc' = "panicked"
    /\ UNCHANGED <<file, source_info, gen_path, sidx, svc, paths, path_info, path_item,
                   openapi_paths, openapi, parseVars, schemaVars>>

\* one iteration of `for (path, path_info) in paths`: the HashMap yields its
\* keys in an unspecified order, and so does first.parameters
GeneratePath ==
    /\ gpc = "paths"
    /\ \E path \in DOMAIN paths :
        \E order \in IterationOrders(DOMAIN paths[path][1].path_def.parameters) :
            /\ path_info' = paths[path]
            /\ path_item' = generate_path(paths[path], order)
            /\ openapi_paths' = IndexMapInsert(openapi_paths, path_to_openapi_path(path),
                                               generate_path(paths[path], order))
            /\ paths' = [k \in DOMAIN paths \ {path} |-> paths[k]]
    /\ UNCHANGED <<file, source_info, gen_path, sidx, svc, openapi, gpc,
                   parseVars, schemaVars>>

\* the end of the iteration: gen.path.pop()
EndService ==
    /\ gpc = "paths"
    /\ DOMAIN paths = {}
    /\ gen_path' = SubSeq(gen_path, 1, Len(gen_path) - 1)
    /\ sidx' = sidx + 1
    /\ gpc' = "services"
    /\ UNCHANGED <<file, source_info, svc, paths, path_info, path_item, openapi_paths,
                   openapi, parseVars, schemaVars>>

\* after the last service: gen.path.pop(), the components, the version, return
Finish ==
    /\ gpc = "services"
    /\ sidx > Len(file.service)
    /\ gen_path' = SubSeq(gen_path, 1, Len(gen_path) - 1)
    /\ openapi' = Some([openapi |-> "3.0.0",
                        paths |-> openapi_paths,
                        components |-> [schemas |-> <<>>]])
    /\ gpc' = "done"
    /\ UNCHANGED <<file, source_info, sidx, svc, paths, path_info, path_item,
                   openapi_paths, parseVars, schemaVars>>

\* main: the document generate returned is serialised to the output file
WriteFile ==
    /\ gpc = "done"
    /\ IsSome(openapi)
    /\ gpc' = "written"
    /\ UNCHANGED <<file, source_info, gen_path, sidx, svc, paths, path_info, path_item,
                   openapi_paths, openapi, parseVars, schemaVars>>

Next ==
    \/ BeginFile
    \/ GenerateService
    \/ GenerateServicePanics
    \/ GeneratePath
    \/ EndService
    \/ Finish
    \/ WriteFile

Spec == Init /\ [][Next]_vars

-----------------------------------------------------------------------------
(* generate_path over one group: the descriptors of a service on one path   *)

MaxGroup == 3   \* descriptors of a group

\* GET /u/{id:string} {n:int}
LineGetUserExtra ==
    LineGetUser \o <<" ","{","n",":","i","n","t","}">>

\* comment lines on the path /u/{id:string}
GroupLines == {LineGetUser, LineGetUserExtra, LinePutUser, LinePutUserNoBody}

\* the descriptors of the lines, each with the types of one of the methods
GroupTriples ==
    {[input_type |-> InputTypeOf(1, m),
      output_type |-> OutputTypeOf(1, m),
      path_def |-> Unwrap(TryFrom(line))] : m \in 1..MaxMethods, line \in GroupLines}

\* the groups the grouping of generate can hand to generate_path
Groups(n) == UNION {[1..k -> GroupTriples] : k \in 1..n}

GroupInit ==
    /\ path_info \in Groups(MaxGroup)
    /\ path_item = <<>>
    /\ gpc = "group"
    /\ file = <<>>
    /\ source_info = <<>> /\ gen_path = <<>> /\ sidx = 0 /\ svc = <<>> /\ paths = <<>>
    /\ openapi_paths = <<>> /\ openapi = <<>>
    /\ ParseIdle
    /\ SchemaIdle

\* let path_item = gen.generate_path(&path_info)
GroupPath ==
    /\ gpc = "group"
    /\ \E order \in IterationOrders(DOMAIN path_info[1].path_def.parameters) :
          path_item' = generate_path(path_info, order)
    /\ gpc' = "grouped"
    /\ UNCHANGED <<file, source_info, gen_path, sidx, svc, paths, path_info,
                   openapi_paths, openapi, parseVars, schemaVars>>

GroupNext == GroupPath

SpecGroup == GroupInit /\ [][GroupNext]_vars

-----------------------------------------------------------------------------
(* Properties of the route annotation parser *)

Contains(s, w) == \E i \in 1..Len(s) : HasAt(s, i, w)
Occurrences(s, w) == {i \in 1..Len(s) : HasAt(s, i, w)}
PlusBody == <<"+"," ","B","O","D","Y">>
MinusBody == <<"-"," ","B","O","D","Y">>
Parsed == ppc = "done" /\ possible_paths /= <<>>

\* C3 as stated: a parsed line containing "+ BODY" has include_body true, one
\* containing "- BODY" has it false, one containing neither has it true.
C3_MarkerContained ==
    Parsed =>
        /\ Contains(comment, PlusBody) => possible_paths[1].include_body
        /\ Contains(comment, MinusBody) => ~possible_paths[1].include_body
        /\ (~Contains(comment, PlusBody) /\ ~Contains(comment, MinusBody))
               => possible_paths[1].include_body

\* C3 amended: the leftmost body marker of a parsed line decides include_body
\* ("+ BODY" first: true, "- BODY" first: false); with no marker it is true.
C3_LeftmostMarkerDecides ==
    Parsed =>
        LET plus == Occurrences(comment, PlusBody)
            minus == Occurrences(comment, MinusBody)
        IN  /\ (plus /= {} /\ (minus = {} \/ SetMin(plus) < SetMin(minus)))
                   => possible_paths[1].include_body
            /\ (minus /= {} /\ (plus = {} \/ SetMin(minus) < SetMin(plus)))
                   => ~possible_paths[1].include_body
            /\ (plus = {} /\ minus = {}) => possible_paths[1].include_body

\* a parsed route line carrying both markers, the excluding one first
C3_Witness ==
    /\ Parsed
    /\ Contains(comment, PlusBody)
    /\ Contains(comment, MinusBody)
    /\ ~possible_paths[1].include_body

ParamNames == {<<"x">>, <<"y">>}
ParamTypes == {<<"i","n","t">>, <<"s","t","r","i","n","g">>, <<"u","u","i","d">>}
Placeholder(n, t) == <<"{">> \o n \o <<":">> \o t \o <<"}">>

\* C4 as stated: for every placeholder {name:type} of a parsed line the emitted
\* path template contains {name} and the parameter map has name with the
\* schema type of type (integer for int, string otherwise).
C4_PlaceholderInTemplateAndMap ==
    Parsed =>
        \A n \in ParamNames, t \in ParamTypes :
            Contains(comment, Placeholder(n, t)) =>
                /\ Contains(path_to_openapi_path(possible_paths[1].path),
                            <<"{">> \o n \o <<"}">>)
                /\ n \in DOMAIN possible_paths[1].parameters
                /\ ParameterSchemaType(possible_paths[1].parameters[n])
                       = (IF t = <<"i","n","t">> THEN "integer" ELSE "string")

\* a verb token after optional leading whitespace
StartsWithVerb(s) ==
    \E v \in Verbs, i \in 1..Len(s) :
        /\ HasAt(s, i, v)
        /\ \A j \in 1..(i - 1) : s[j] \in SpaceChar

\* C5: a line without a verb token at its start (after optional whitespace)
\* yields no route descriptor, and every descriptor's method is one of the
\* four verb tokens.
C5_NoVerbNoRoute ==
    ppc = "done" =>
        /\ ~StartsWithVerb(comment) => possible_paths = <<>>
        /\ \A j \in DOMAIN possible_paths : possible_paths[j].method \in Verbs

\* a line with a verb and a path, the verb not at the start: no descriptor
C5_Witness ==
    /\ ppc = "done"
    /\ ~StartsWithVerb(comment)
    /\ Contains(comment, GET)
    /\ Contains(comment, <<"/","a">>)
    /\ possible_paths = <<>>

-----------------------------------------------------------------------------
(* Properties of the schema flattener *)

\* the message the last GenerateMessage flattened; schema is what it returned
Flattened == spc /= "idle" /\ midx > 1
FlattenedMessage == file.message_type[midx - 1]

RECURSIVE NestDepth(_)
\* levels of the chain of first nested messages, the message being level 1
NestDepth(m) == IF m.nested_type = <<>> THEN 1 ELSE 1 + NestDepth(m.nested_type[1])

RECURSIVE LevelOf(_, _)
\* the message at level k of that chain
LevelOf(m, k) == IF k = 1 THEN m ELSE LevelOf(m.nested_type[1], k - 1)

\* C7: generate_schema_recursive(message, 0) returns a schema for every
\* nesting level below 10 and none for a level at or beyond 10 (for a chain
\* of depth 11: levels 1..9 present, 10 and 11 absent), and it returns.
C7_TruncationAtTen ==
    Flattened =>
        \A k \in 1..NestDepth(FlattenedMessage) :
            (LevelOf(FlattenedMessage, k).name \in DOMAIN schema) <=> (k < 10)

\* the chain of depth 11 flattened: level 9 kept, levels 10 and 11 dropped
C7_Witness ==
    /\ Flattened
    /\ NestDepth(FlattenedMessage) = 11
    /\ LevelOf(FlattenedMessage, 9).name \in DOMAIN schema
    /\ LevelOf(FlattenedMessage, 10).name \notin DOMAIN schema
    /\ LevelOf(FlattenedMessage, 11).name \notin DOMAIN schema

\* the fields the claims call plain: outside every oneof, or proto3 optional
IsPlainField(f) == f.oneof_index = None \/ f.proto3_optional = Some(TRUE)
OwnProperties == schema[FlattenedMessage.name].properties

\* the Type Mapper as the specification states it
MapperType(type) ==
    IF type = "Bool" THEN "boolean"
    ELSE IF type \in {"Double", "Float"} THEN "number"
    ELSE IF type \in {"Int32", "Int64", "Uint32", "Uint64"} THEN "integer"
    ELSE "string"

\* C8 as stated: the properties of the plain fields come first, in declaration
\* order, each with the Type Mapper's type of the field's wire type.
C8_PlainFieldsMapperType ==
    Flattened =>
        LET plain == SelectSeq(FlattenedMessage.field, IsPlainField)
        IN  /\ Len(OwnProperties) >= Len(plain)
            /\ \A j \in DOMAIN plain :
                /\ OwnProperties[j].key = plain[j].name
                /\ OwnProperties[j].value = [kind |-> "Type", type |-> MapperType(plain[j].type)]

\* C8 amended: the properties of the plain fields come first, in declaration
\* order; a field without a foreign type name has the Type Mapper's type, a
\* message- or enum-typed field a reference to the type's short name, and a
\* repeated field an array of that.
C8_PlainFieldsInOrder ==
    Flattened =>
        LET plain == SelectSeq(FlattenedMessage.field, IsPlainField)
            item(f) == IF f.type \in {"Message", "Enum"}
                       THEN [ref |-> <<"#/components/schemas/",
                                       Unwrap(f.type_name)[Len(Unwrap(f.type_name))]>>]
                       ELSE [kind |-> "Type", type |-> MapperType(f.type)]
        IN  /\ Len(OwnProperties) >= Len(plain)
            /\ \A j \in DOMAIN plain :
                /\ OwnProperties[j].key = plain[j].name
                /\ OwnProperties[j].value =
                       IF plain[j].label = "Repeated"
                       THEN [kind |-> "Array", items |-> item(plain[j])]
                       ELSE item(plain[j])

\* User{string name; int32 age;} flattened to name:string, age:integer
C8_Witness ==
    /\ Flattened
    /\ FlattenedMessage.name = "User"
    /\ Len(FlattenedMessage.field) = 2
    /\ OwnProperties = <<[key |-> "name", value |-> [kind |-> "Type", type |-> "string"]],
                         [key |-> "age", value |-> [kind |-> "Type", type |-> "integer"]]>>

\* the member fields of the oneof group declared at position j
GroupMembers(m, j) ==
    SelectSeq(m.field,
              LAMBDA f : f.proto3_optional /= Some(TRUE) /\ f.oneof_index = Some(j - 1))

\* C9: a oneof group with n >= 1 member fields gives a property named after
\* the group, a oneOf of exactly n alternatives, the k-th an object whose only
\* property is named after the k-th member; a group without members (the
\* synthetic group of a proto3-optional field) gives no property.
C9_OneofGroups ==
    Flattened =>
        \A j \in DOMAIN FlattenedMessage.oneof_decl :
            LET members == GroupMembers(FlattenedMessage, j)
                group == FlattenedMessage.oneof_decl[j].name
                hits == {i \in DOMAIN OwnProperties : OwnProperties[i].key = group}
            IN  IF Len(members) >= 1
                THEN /\ Cardinality(hits) = 1
                     /\ \A i \in hits :
                         /\ DOMAIN OwnProperties[i].value = {"kind", "one_of"}
                         /\ OwnProperties[i].value.kind = "OneOf"
                         /\ Len(OwnProperties[i].value.one_of) = Len(members)
                         /\ \A k \in DOMAIN members :
                             /\ OwnProperties[i].value.one_of[k].kind = "Object"
                             /\ IndexMapKeys(OwnProperties[i].value.one_of[k].properties)
                                    = <<members[k].name>>
                ELSE hits = {}

\* a group of two members beside a proto3-optional field and its synthetic group
C9_Witness ==
    /\ Flattened
    /\ \E j \in DOMAIN FlattenedMessage.oneof_decl :
           Len(GroupMembers(FlattenedMessage, j)) = 2
    /\ \E j \in DOMAIN FlattenedMessage.oneof_decl :
           /\ Len(GroupMembers(FlattenedMessage, j)) = 0
           /\ FlattenedMessage.oneof_decl[j].name \notin
                  {OwnProperties[i].key : i \in DOMAIN OwnProperties}
    /\ \E i \in DOMAIN OwnProperties :
           /\ DOMAIN OwnProperties[i].value = {"kind", "one_of"}
           /\ Len(OwnProperties[i].value.one_of) = 2

-----------------------------------------------------------------------------
(* Properties of the service pass *)

\* the operation of the slot of an HTTP method
Slot(item, method) ==
    CASE method = GET -> item.get
      [] method = POST -> item.post
      [] method = PUT -> item.put
      [] method = DELETE -> item.delete

\* the route descriptors of the s-th service of the file, with their types
ServiceTriples(s) ==
    AllTriples(MethodInfos(Unwrap(
        generate_service(source_info, <<6, s - 1>>, file.service[s]))), 1)

\* the path items of the document under an OpenAPI path
ItemsAt(key) == {k \in DOMAIN Unwrap(openapi).paths : Unwrap(openapi).paths[k].key = key}

\* both descriptors have their operation in the one item of their path
Merged(t1, t2) ==
    LET key == path_to_openapi_path(t1.path_def.path)
    IN  /\ Cardinality(ItemsAt(key)) = 1
        /\ Slot(IndexMapGet(Unwrap(openapi).paths, key), t1.path_def.method) /= None
        /\ Slot(IndexMapGet(Unwrap(openapi).paths, key), t2.path_def.method) /= None

SamePathOtherMethod(t1, t2) ==
    /\ t1.path_def.path = t2.path_def.path
    /\ t1.path_def.method /= t2.path_def.method

\* C1 as stated: two descriptors of one service on the same path with
\* different methods leave exactly one path item under that path, with an
\* operation in the slot of each of the two methods.
C1_SamePathMerged ==
    gpc = "done" =>
        \A s \in DOMAIN file.service :
            \A i, j \in DOMAIN ServiceTriples(s) :
                SamePathOtherMethod(ServiceTriples(s)[i], ServiceTriples(s)[j])
                    => Merged(ServiceTriples(s)[i], ServiceTriples(s)[j])

\* C2 as stated: two descriptors of two different services of the file on
\* the same path with different methods both have their operation in the
\* path item of that path.
C2_GroupedAcrossServices ==
    gpc = "done" =>
        \A s1, s2 \in DOMAIN file.service :
            s1 /= s2 =>
                \A i \in DOMAIN ServiceTriples(s1) :
                    \A j \in DOMAIN ServiceTriples(s2) :
                        SamePathOtherMethod(ServiceTriples(s1)[i], ServiceTriples(s2)[j])
                            => Merged(ServiceTriples(s1)[i], ServiceTriples(s2)[j])

\* the comment lines protoc stored in the file at a location path
StoredLines(path) ==
    LET at == {k \in DOMAIN file.source_code_info.location :
                   file.source_code_info.location[k].path = path}
    IN  IF at = {} THEN <<>>
        ELSE from_location(file.source_code_info.location[CHOOSE k \in at : TRUE]).leading

\* the schema reference of the only media type of a content map
OnlyRef(content) == content[1].value.schema

\* the operation comes from a comment line of method m of service s and
\* names the types of that method
BuiltFrom(operation, method, key, s, m) ==
    /\ \E i \in DOMAIN StoredLines(<<6, s - 1, 2, m - 1>>) :
          LET path_def == TryFrom(StoredLines(<<6, s - 1, 2, m - 1>>)[i])
          IN  /\ IsSome(path_def)
              /\ Unwrap(path_def).method = method
              /\ path_to_openapi_path(Unwrap(path_def).path) = key
    /\ OnlyRef(operation.responses.responses[1].value.content)
           = SchemaRef(Unwrap(file.service[s].method[m].output_type))
    /\ IsSome(operation.request_body)
           => OnlyRef(Unwrap(operation.request_body).content)
                  = SchemaRef(Unwrap(file.service[s].method[m].input_type))

\* C6: the comment lines of method m of service s are the ones stored at
\* location path [6, s, 2, m] (indices from 0), and every operation of the
\* path table comes from a comment line of some method and references the
\* short names of the input and output type of that same method.
C6_MethodTypesPaired ==
    /\ gpc = "paths" =>
          \A m \in DOMAIN svc.methods :
              svc.methods[m].comments.leading = StoredLines(<<6, sidx - 1, 2, m - 1>>)
    /\ \A k \in DOMAIN openapi_paths :
          \A method \in Verbs :
              IsSome(Slot(openapi_paths[k].value, method)) =>
                  \E s \in DOMAIN file.service :
                      \E m \in DOMAIN file.service[s].method :
                          BuiltFrom(Unwrap(Slot(openapi_paths[k].value, method)),
                                    method, openapi_paths[k].key, s, m)

\* a finished document with an operation of the second method of the
\* second service, which has a request body
C6_Witness ==
    /\ gpc = "done"
    /\ \E k \in DOMAIN openapi_paths :
          /\ IsSome(openapi_paths[k].value.put)
          /\ IsSome(Unwrap(openapi_paths[k].value.put).request_body)
          /\ OnlyRef(Unwrap(Unwrap(openapi_paths[k].value.put).request_body).content)
                 = SchemaRef(InputTypeOf(2, 2))
          /\ BuiltFrom(Unwrap(openapi_paths[k].value.put), PUT, openapi_paths[k].key, 2, 2)

\* the descriptors of the group with an HTTP method
WithMethod(method) == {i \in DOMAIN path_info : path_info[i].path_def.method = method}

\* C10: in the path item generate_path builds from a group of descriptors,
\* the operation of each method is that of the last descriptor with the
\* method: it has a request body iff the method is not GET and include_body
\* is true, and exactly one response, under status 200, whose description is
\* "A response containing " followed by the short name of the output type.
C10_BodyAndResponse ==
    path_item /= <<>> =>
        \A method \in Verbs :
            IF WithMethod(method) = {} THEN Slot(path_item, method) = None
            ELSE LET t == path_info[SetMax(WithMethod(method))]
                     operation == Unwrap(Slot(path_item, method))
                 IN  /\ IsSome(Slot(path_item, method))
                     /\ IsSome(operation.request_body)
                            <=> (method /= GET /\ t.path_def.include_body)
                     /\ operation.responses.default = None
                     /\ IndexMapKeys(operation.responses.responses) = <<200>>
                     /\ operation.responses.responses[1].value.description
                            = <<"A response containing ", t.output_type[Len(t.output_type)]>>

\* a path item with a GET operation without a request body, though its
\* descriptor has include_body, and a PUT operation without one, as its
\* descriptor has not
C10_Witness ==
    /\ path_item /= <<>>
    /\ \E i, j \in DOMAIN path_info :
          /\ path_info[i].path_def.method = GET
          /\ path_info[i].path_def.include_body
          /\ path_info[j].path_def.method = PUT
          /\ ~path_info[j].path_def.include_body
    /\ IsSome(path_item.get) /\ Unwrap(path_item.get).request_body = None
    /\ IsSome(path_item.put) /\ Unwrap(path_item.put).request_body = None

-----------------------------------------------------------------------------
(* Properties of the tag list *)

\* the bracketed groups of the line: [ and ] around one or more letters,
\* digits, commas and spaces
TagGroups ==
    {g \in {i \in 1..Len(comment) : comment[i] = "["}
           \X {j \in 1..Len(comment) : comment[j] = "]"} :
        /\ g[2] > g[1] + 1
        /\ \A k \in (g[1] + 1)..(g[2] - 1) : comment[k] \in TagChar}

\* the text between the brackets of the first group
FirstGroupText ==
    LET g == CHOOSE g \in TagGroups : \A h \in TagGroups : g[1] <= h[1]
    IN  SubSeq(comment, g[1] + 1, g[2] - 1)

\* the k-th smallest element of S
Kth(S, k) == CHOOSE x \in S : Cardinality({y \in S : y < x}) = k - 1

\* the elements of a comma-separated list, each without the spaces around it
ListElements(text) ==
    LET commas == {k \in 1..Len(text) : text[k] = ","}
        from(p) == IF p = 1 THEN 1 ELSE Kth(commas, p - 1) + 1
        to(p) == IF p = Cardinality(commas) + 1 THEN Len(text) ELSE Kth(commas, p) - 1
        inked(p) == {k \in from(p)..to(p) : text[k] /= " "}
    IN  [p \in 1..(Cardinality(commas) + 1) |->
            IF inked(p) = {} THEN <<>>
            ELSE SubSeq(text, SetMin(inked(p)), SetMax(inked(p)))]

\* the operation generate_path builds from the descriptor alone in its group
OperationOf(path_def) ==
    LET order == CHOOSE o \in IterationOrders(DOMAIN path_def.parameters) : TRUE
    IN  Unwrap(Slot(generate_path(<<[input_type |-> InputTypeOf(1, 1),
                                     output_type |-> OutputTypeOf(1, 1),
                                     path_def |-> path_def]>>, order),
                    path_def.method))

\* C11: the tags of a parsed line are the elements of its first bracketed
\* group, in order and trimmed, or none when the line has no such group; the
\* operation built from the descriptor carries the same tags.
C11_TagsOfFirstGroup ==
    Parsed =>
        /\ possible_paths[1].tags =
               IF TagGroups = {} THEN <<>> ELSE ListElements(FirstGroupText)
        /\ OperationOf(possible_paths[1]).tags = possible_paths[1].tags

\* a parsed line with the group [a, b] before the group [c]
C11_Witness ==
    /\ Parsed
    /\ Cardinality(TagGroups) = 2
    /\ FirstGroupText = <<"a", ",", " ", "b">>
    /\ \E g \in TagGroups : SubSeq(comment, g[1] + 1, g[2] - 1) = <<"c">>
    /\ possible_paths[1].tags = << <<"a">>, <<"b">> >>

-----------------------------------------------------------------------------
(* Properties of the enum schema *)

\* the decimal text of a value's number (0 and 1 are the numbers declared)
NumberText(n) == CASE n = 0 -> "0" [] n = 1 -> "1"

\* the description of a value list: for each value its name, " = " and its
\* number, and a blank line between two values
DescribesValues(description, values) ==
    /\ Len(description) = IF values = <<>> THEN 0 ELSE 4 * Len(values) - 1
    /\ \A i \in DOMAIN values :
          /\ description[4 * i - 3] = values[i].name
          /\ description[4 * i - 2] = " = "
          /\ description[4 * i - 1] = NumberText(values[i].number)
          /\ i < Len(values) => description[4 * i] = "\n\n"

\* the top-level enums of the file generate has turned into schemas
EnumsDone == IF spc = "idle" THEN {} ELSE 1..(eidx - 1)

\* C12: the schema of an enum is an integer schema whose enum constraint is
\* the list of the values' numbers in declaration order, duplicates kept,
\* and whose description is the NAME = VALUE lines in declaration order
\* separated by blank lines.
C12_EnumSchema ==
    \A e \in EnumsDone :
        LET values == file.enum_type[e].value
            enum_schema == schema_map[file.enum_type[e].name]
        IN  /\ enum_schema.kind = "Integer"
            /\ Len(enum_schema.enumeration) = Len(values)
            /\ \A i \in DOMAIN values : enum_schema.enumeration[i] = values[i].number
            /\ DescribesValues(enum_schema.description, values)

\* an enum of two values with the same number, INACTIVE declared first
C12_Witness ==
    /\ EnumsDone = {1}
    /\ Len(file.enum_type[1].value) = 2
    /\ file.enum_type[1].value[1].name = "INACTIVE"
    /\ file.enum_type[1].value[1].number = file.enum_type[1].value[2].number
    /\ schema_map["Status"].enumeration = <<1, 1>>

-----------------------------------------------------------------------------
(* Properties of the fatal conditions *)

\* the file holds a location with the path
HasLocation(path) ==
    \E k \in DOMAIN file.source_code_info.location :
        file.source_code_info.location[k].path = path

\* the s-th service has no location, or a method of it has no location, no
\* name, no input type or no output type
ServiceDefective(s) ==
    \/ ~HasLocation(<<6, s - 1>>)
    \/ \E m \in DOMAIN file.service[s].method :
          \/ ~HasLocation(<<6, s - 1, 2, m - 1>>)
          \/ file.service[s].method[m].name = None
          \/ file.service[s].method[m].input_type = None
          \/ file.service[s].method[m].output_type = None

\* C13: the run never gets past a service with a method without name, input
\* type or output type, or with a service or method location missing: it
\* aborts there, and no document is returned or written, whatever paths the
\* services before it have left.
C13_NoPartialDocument ==
    /\ gpc = "panicked" => openapi = None
    /\ \A s \in DOMAIN file.service :
          ServiceDefective(s) =>
              /\ openapi = None
              /\ gpc \notin {"done", "written"}
              /\ sidx <= s
              /\ ~(gpc = "paths" /\ sidx = s)
              /\ (gpc = "services" /\ sidx = s) => ~ENABLED GenerateService

\* the run has aborted in the second service, after the first service has
\* left a path in the table
C13_Witness ==
    /\ gpc = "panicked"
    /\ sidx = 2
    /\ ServiceDefective(2)
    /\ openapi_paths /= <<>>
    /\ openapi = None

-----------------------------------------------------------------------------
(* Properties of the order of the path table *)

\* the route descriptors of the file in service, method and comment-line order
FileTriples == Concat([s \in DOMAIN file.service |-> ServiceTriples(s)])

\* the OpenAPI path of the i-th descriptor of the file
KeyOf(i) == path_to_openapi_path(FileTriples[i].path_def.path)

\* the first descriptor of the file on the OpenAPI path
FirstOccurrence(key) == SetMin({i \in DOMAIN FileTriples : KeyOf(i) = key})

\* the position of the OpenAPI path in the path table of the document
PositionOf(key) ==
    CHOOSE k \in DOMAIN Unwrap(openapi).paths : Unwrap(openapi).paths[k].key = key

\* C14 as stated: a path whose first descriptor comes before the first
\* descriptor of another path precedes that path in the path table.
C14_FirstOccurrenceOrder ==
    gpc = "done" =>
        \A i, j \in DOMAIN FileTriples :
            FirstOccurrence(KeyOf(i)) < FirstOccurrence(KeyOf(j))
                => PositionOf(KeyOf(i)) < PositionOf(KeyOf(j))

-----------------------------------------------------------------------------
(* Properties of a group with a repeated method *)

\* the operation is the one of the descriptor: its tags, its body flag and
\* the short names of its types
OperationFrom(operation, t) ==
    /\ operation.tags = t.path_def.tags
    /\ IsSome(operation.request_body)
           <=> (t.path_def.method /= GET /\ t.path_def.include_body)
    /\ IsSome(operation.request_body)
           => OnlyRef(Unwrap(operation.request_body).content)
                  = [ref |-> <<"#/components/schemas/", t.input_type[Len(t.input_type)]>>]
    /\ OnlyRef(operation.responses.responses[1].value.content)
           = [ref |-> <<"#/components/schemas/", t.output_type[Len(t.output_type)]>>]
    /\ operation.responses.responses[1].value.description
           = <<"A response containing ", t.output_type[Len(t.output_type)]>>

\* the path-level parameters are the parameters of the descriptor
ParametersFrom(parameters, t) ==
    /\ Len(parameters) = Cardinality(DOMAIN t.path_def.parameters)
    /\ {parameters[k].name : k \in DOMAIN parameters} = DOMAIN t.path_def.parameters
    /\ \A k \in DOMAIN parameters :
          /\ parameters[k].required
          /\ parameters[k].schema.type =
                 IF t.path_def.parameters[parameters[k].name] = <<"i","n","t">>
                 THEN "integer" ELSE "string"

\* C15: in the path item of a group the slot of each method holds the
\* operation of the last descriptor of the group with that method, a method
\* without descriptor has an empty slot, and the path-level parameters are
\* those of the first descriptor of the group.
C15_LastWriteWins ==
    gpc = "grouped" =>
        /\ \A method \in Verbs :
              IF WithMethod(method) = {} THEN Slot(path_item, method) = None
              ELSE /\ IsSome(Slot(path_item, method))
                   /\ OperationFrom(Unwrap(Slot(path_item, method)),
                                    path_info[SetMax(WithMethod(method))])
        /\ ParametersFrom(path_item.parameters, path_info[1])

\* a group of a GET with the parameters id and n, then two PUTs that differ
\* in types, body flag and tags: the second PUT is in the slot
C15_Witness ==
    /\ gpc = "grouped"
    /\ Len(path_info) = 3
    /\ path_info[1].path_def.method = GET
    /\ Cardinality(DOMAIN path_info[1].path_def.parameters) = 2
    /\ path_info[2].path_def.method = PUT /\ path_info[2].path_def.include_body
    /\ path_info[2].output_type = OutputTypeOf(1, 1)
    /\ path_info[3].path_def.method = PUT /\ ~path_info[3].path_def.include_body
    /\ path_info[3].output_type = OutputTypeOf(1, 2)
    /\ Unwrap(path_item.put).tags = << <<"a">> >>
    /\ Unwrap(path_item.put).request_body = None
    /\ IsSome(path_item.get)
    /\ Len(path_item.parameters) = 2

-----------------------------------------------------------------------------
(* Properties of the flattening order *)

\* the object schema of the message's own fields
OwnSchema(m) ==
    generate_fields_schema(PlainFields(m.field), OneofFields(m.field), m.oneof_decl)

\* C16 as stated: the entry under the name of a flattened message in the
\* mapping generate_schema_recursive returns for it is the message's own
\* object schema, also when a nested message or a nested enum bears its
\* name; checked for the top-level message and its nested messages.
C16_OwnSchemaLast ==
    Flattened =>
        /\ schema[FlattenedMessage.name] = OwnSchema(FlattenedMessage)
        /\ \A k \in DOMAIN FlattenedMessage.nested_type :
              generate_schema_recursive(FlattenedMessage.nested_type[k], 1)
                  [FlattenedMessage.nested_type[k].name]
                  = OwnSchema(FlattenedMessage.nested_type[k])

====
